---------------------------- MODULE Spec2Model ----------------------------
(***************************************************************************)
(* One room of the quiz server (src/server/index.js).  The room exists     *)
(* from Init on (the state createRoom leaves); every socket handler and    *)
(* every setTimeout callback is one action.  Time is the value Date.now()  *)
(* returns, in milliseconds.  Indexes are 0-based as in the source; a      *)
(* TLA+ sequence s holds the JavaScript array element s[i] at s[i + 1].    *)
(*                                                                         *)
(* A setTimeout callback runs no earlier than its due time, possibly       *)
(* later, and pending callbacks run in the order of their due times (the   *)
(* order of Node's timer queue).  The handle of the deadline callback is   *)
(* room.timer; the handle of the inter-round callback is not kept by the   *)
(* source, so that callback cannot be cancelled.  Time moves between the   *)
(* instants at which the room can behave differently: the deadline, the    *)
(* millisecond after it, and the due times of the pending callbacks.       *)
(***************************************************************************)
EXTENDS Integers, Sequences, FiniteSets, TLC

\* ------------------------------------------------------------------ bounds
\* Date.now() is not advanced beyond MaxTime: the first question runs to its
\* results and the inter-round callback, with restarts anywhere on the way.
MaxTime == 40000

\* ------------------------------------------------------------- input sets
PlayerIds == {"p1", "p2"}
\* room:join payloads with the connection they arrive on: p1 joins with avatar
\* A on either of two connections (a re-join after a drop), p2 with avatar A
\* (which p1 may hold) or B, and p1 asks for B as well.
JoinRequests ==
    {[playerId |-> "p1", socketId |-> "s1", avatarId |-> "A"],
     [playerId |-> "p1", socketId |-> "s2", avatarId |-> "A"],
     [playerId |-> "p2", socketId |-> "s3", avatarId |-> "A"],
     [playerId |-> "p2", socketId |-> "s3", avatarId |-> "B"]}
\* answerIndex values a client sends: both options and one past the table.
AnswerIndexes == {0, 1, 2}
\* powerIndex values a client sends.
PowerIndexes == {0, 1}
\* Values of 1000 + Math.floor(Math.random()*6000) that are tried.
DeltaSamples == {1000, 3000}

\* questions.json is read once at startup; these are the catalogs tried.
Q1 == [optionScores |-> <<100, 500>>, bestIndex |-> 1]
Q2 == [optionScores |-> <<200, 900>>, bestIndex |-> 0]
Catalogs == {<< >>, <<Q1>>, <<Q1, Q2>>}

\* ------------------------------------------------------ program constants
durationMs == 30000
graceMs == 1000
delayMs == 4000
lastMultiplier == 4
initialStun == -1

\* JavaScript null (room.timer, room.questionEndsAt, a missing question).
NULL == -1

POWERS == {"PLUS", "MINUS", "SWAP_LOW", "SWAP_HIGH", "X2_SCORE", "STUN", "FINAL_X4"}

VARIABLES
    questions,              \* the catalog (fixed after startup)
    now,                    \* Date.now()
    state,                  \* room.state
    currentQuestionIndex,   \* room.currentQuestionIndex
    questionEndsAt,         \* room.questionEndsAt
    players,                \* room.players, in join order
    timer,                  \* room.timer: NULL or the due time of the pending finalizeQuestion callback
    delays,                 \* due times of the pending inter-round callbacks (their handles are not kept)
    events,                 \* what the last handler emitted and acknowledged, in order
    powerUsedCount          \* history: per player, per power slot, the room:power:used events emitted

vars == <<questions, now, state, currentQuestionIndex, questionEndsAt, players,
          timer, delays, events, powerUsedCount>>

\* ---------------------------------------------------------------- helpers
Max(a, b) == IF a >= b THEN a ELSE b

\* !x for a value that is null or a number.
Falsy(x) == x = NULL \/ x = 0

\* Array.prototype.findIndex on room.players by playerId, 1-based; 0 when absent.
FindPlayer(pl, playerId) ==
    IF \E i \in 1..Len(pl) : pl[i].playerId = playerId
    THEN CHOOSE i \in 1..Len(pl) :
            /\ pl[i].playerId = playerId
            /\ \A j \in 1..(i - 1) : pl[j].playerId # playerId
    ELSE 0

\* What getQuestion returns for an index outside the catalog (null).
NoQuestion == [missing |-> TRUE, optionScores |-> << >>, bestIndex |-> NULL, isLast |-> FALSE]

getQuestion(index) ==
    IF index >= 0 /\ index < Len(questions)
    THEN [missing |-> FALSE,
          optionScores |-> questions[index + 1].optionScores,
          bestIndex |-> questions[index + 1].bestIndex,
          isLast |-> (index = Len(questions) - 1)]
    ELSE NoQuestion

\* getEffectiveScore without the multiplier of the last question.
getEffectiveScoreFlat(q, answerIndex) ==
    IF q.missing THEN 0
    ELSE IF answerIndex >= 0 /\ answerIndex < Len(q.optionScores)
         THEN q.optionScores[answerIndex + 1]
         ELSE 0

getEffectiveScore(q, answerIndex) ==
    IF q.missing THEN 0
    ELSE LET base == IF answerIndex >= 0 /\ answerIndex < Len(q.optionScores)
                     THEN q.optionScores[answerIndex + 1]
                     ELSE 0
         IN IF q.isLast THEN base * lastMultiplier ELSE base

\* randomPower with FINAL_X4 in the pool of every question.
randomPowerAnyRound(questionIndex) ==
    {"PLUS", "MINUS", "SWAP_LOW", "SWAP_HIGH", "X2_SCORE", "STUN", "FINAL_X4"}

\* The pool randomPower draws from.
randomPower(questionIndex) ==
    LET isLast == questionIndex = Len(questions) - 1
    IN {"PLUS", "MINUS", "SWAP_LOW", "SWAP_HIGH", "X2_SCORE", "STUN"}
       \cup (IF isLast THEN {"FINAL_X4"} ELSE {})

\* ------------------------------------------------------------ leaderboard
\* InsertSorted for a sort that is not stable: i goes before its ties.
InsertSortedBeforeTies(s, i, pl, sign) ==
    LET k == Cardinality({m \in 1..Len(s) : sign * pl[s[m]].score < sign * pl[i].score})
    IN SubSeq(s, 1, k) \o <<i>> \o SubSeq(s, k + 1, Len(s))

\* Array.prototype.sort is stable: s is sorted, i goes after every element
\* the comparator does not put behind it.  sign = -1 is (a,b) => b.score - a.score,
\* sign = 1 is (a,b) => a.score - b.score.
InsertSorted(s, i, pl, sign) ==
    LET k == Cardinality({m \in 1..Len(s) : sign * pl[s[m]].score <= sign * pl[i].score})
    IN SubSeq(s, 1, k) \o <<i>> \o SubSeq(s, k + 1, Len(s))

RECURSIVE SortPrefix(_, _, _)
SortPrefix(pl, n, sign) ==
    IF n = 0 THEN << >>
    ELSE InsertSorted(SortPrefix(pl, n - 1, sign), n, pl, sign)

\* [...players].sort(cmp), as the positions in players of the sorted elements.
sortByScore(pl, sign) == SortPrefix(pl, Len(pl), sign)

leaderboard(pl) ==
    LET s == sortByScore(pl, -1)
    IN [idx \in 1..Len(pl) |->
            [rank |-> idx, playerId |-> pl[s[idx]].playerId, score |-> pl[s[idx]].score]]

\* ----------------------------------------------------------------- events
EvUpdate == [type |-> "room:update"]
EvQuestionStart(qIndex, endsAt) ==
    [type |-> "room:question:start", questionIndex |-> qIndex, endsAt |-> endsAt]
EvResults(qIndex, q, pl) ==
    [type |-> "room:question:results", questionIndex |-> qIndex, bestIndex |-> q.bestIndex,
     leaderboard |-> leaderboard(pl),
     playersPowers |-> [i \in 1..Len(pl) |-> [playerId |-> pl[i].playerId, powers |-> pl[i].powers]]]
EvGameEnded(pl) == [type |-> "room:game:ended", leaderboard |-> leaderboard(pl)]
EvPowerUsed(type, actor, target, pl) ==
    [type |-> "room:power:used", powerType |-> type, actor |-> actor, target |-> target,
     players |-> [i \in 1..Len(pl) |->
                    [playerId |-> pl[i].playerId, score |-> pl[i].score,
                     stunnedUntil |-> pl[i].stunnedUntil]]]
AckError(msg) == [type |-> "ack", error |-> msg]
AckOk == [type |-> "ack", error |-> ""]
AckGained(gained) == [type |-> "ack", error |-> "", gained |-> gained]

\* ------------------------------------------------------------------- Init
Init ==
    /\ questions \in Catalogs
    /\ now = 0
    /\ state = "lobby"
    /\ currentQuestionIndex = 0
    /\ questionEndsAt = NULL
    /\ players = << >>
    /\ timer = NULL
    /\ delays = {}
    /\ events = << >>
    /\ powerUsedCount = << >>

\* ------------------------------------------------------- room state machine
\* endGame without clearTimeout(room.timer).
endGameKeepTimer(pl, post) ==
    /\ state' = "ended"
    /\ timer' = timer
    /\ questionEndsAt' = questionEndsAt
    /\ events' = <<EvGameEnded(pl)>> \o post

\* endGame(room), followed by what the caller emits after it.
endGame(pl, post) ==
    /\ state' = "ended"
    /\ timer' = NULL
    /\ questionEndsAt' = questionEndsAt
    /\ events' = <<EvGameEnded(pl)>> \o post

\* startQuestion that schedules no deadline callback.
startQuestionNoTimer(qIndex, pl, post) ==
    IF getQuestion(qIndex).missing
    THEN endGame(pl, post)
    ELSE /\ state' = "question"
         /\ questionEndsAt' = now + durationMs
         /\ timer' = NULL
         /\ events' = <<EvQuestionStart(qIndex, now + durationMs)>> \o post

\* startQuestion without the test for a missing question.
startQuestionUnchecked(qIndex, pl, post) ==
    /\ state' = "question"
    /\ questionEndsAt' = now + durationMs
    /\ timer' = now + durationMs + graceMs
    /\ events' = <<EvQuestionStart(qIndex, now + durationMs)>> \o post

\* startQuestion(room) for the index the caller has just set.
startQuestion(qIndex, pl, post) ==
    IF getQuestion(qIndex).missing
    THEN endGame(pl, post)
    ELSE /\ state' = "question"
         /\ questionEndsAt' = now + durationMs
         /\ timer' = now + durationMs + graceMs
         /\ events' = <<EvQuestionStart(qIndex, now + durationMs)>> \o post

\* The player a new join creates.
NewPlayer(playerId, socketId, avatarId) ==
    [playerId |-> playerId, socketId |-> socketId, avatarId |-> avatarId,
     score |-> 0, stunnedUntil |-> initialStun, answers |-> << >>, powers |-> << >>]

\* AvatarTaken comparing the avatarId with the players' playerId.
AvatarTakenWrongField(pl, avatarId) == \E i \in 1..Len(pl) : pl[i].playerId = avatarId

\* room.players.some(p => p.avatarId === avatarId)
AvatarTaken(pl, avatarId) == \E i \in 1..Len(pl) : pl[i].avatarId = avatarId

\* rebind with a fresh player record put in place of the existing one.
rebindAsNew(p, socketId) == NewPlayer(p.playerId, socketId, p.avatarId)

\* player.socketId = socket.id for the player the room already has.
rebind(p, socketId) == [p EXCEPT !.socketId = socketId]

\* socket.on('room:join')
Join(playerId, socketId, avatarId) ==
    LET i == FindPlayer(players, playerId) IN
    /\ IF i # 0
       THEN /\ players' = [players EXCEPT ![i] = rebind(@, socketId)]
            /\ powerUsedCount' = powerUsedCount
            /\ events' = <<EvUpdate, AckOk>>
       ELSE IF AvatarTaken(players, avatarId)
       THEN /\ players' = players
            /\ powerUsedCount' = powerUsedCount
            /\ events' = <<AckError("Avatar already taken")>>
       ELSE /\ players' = Append(players, NewPlayer(playerId, socketId, avatarId))
            /\ powerUsedCount' = Append(powerUsedCount, << >>)
            /\ events' = <<EvUpdate, AckOk>>
    /\ UNCHANGED <<questions, now, state, currentQuestionIndex, questionEndsAt, timer, delays>>

\* ResetPlayer without the reset of stunnedUntil.
ResetPlayerKeepStun(p) ==
    [p EXCEPT !.score = 0, !.answers = << >>, !.powers = << >>]

\* One player with the fields host:startGame resets.
ResetPlayer(p) ==
    [p EXCEPT !.score = 0, !.stunnedUntil = initialStun, !.answers = << >>, !.powers = << >>]

\* socket.on('host:startGame')
StartGame ==
    /\ currentQuestionIndex' = 0
    /\ players' = [i \in 1..Len(players) |-> ResetPlayer(players[i])]
    /\ powerUsedCount' = [i \in 1..Len(players) |-> << >>]
    /\ startQuestion(0, players', <<EvUpdate>>)
    /\ UNCHANGED <<questions, now, delays>>

\* ---------------------------------------------------------- submitAnswer
\* !room.questionEndsAt || now > room.questionEndsAt
timeIsUp(t, endsAt) == Falsy(endsAt) \/ t > endsAt

\* isStunned with the watermark compared one index too far.
isStunnedOffByOne(p, qIndex) == p.stunnedUntil > qIndex + 1

\* player.stunnedUntil > qIndex
isStunned(p, qIndex) == p.stunnedUntil > qIndex

\* alreadyAnswered reading answerIndex where questionIndex is meant.
alreadyAnsweredByOption(p, qIndex) ==
    \E k \in 1..Len(p.answers) : p.answers[k].answerIndex = qIndex

\* player.answers.some(a => a.questionIndex === qIndex)
alreadyAnswered(p, qIndex) == \E k \in 1..Len(p.answers) : p.answers[k].questionIndex = qIndex

\* socket.on('player:submitAnswer')
SubmitAnswer(playerId, answerIndex) ==
    LET i == FindPlayer(players, playerId)
        qIndex == currentQuestionIndex
        q == getQuestion(qIndex)
        gained == getEffectiveScore(q, answerIndex)
    IN
    /\ IF timeIsUp(now, questionEndsAt)
       THEN /\ players' = players
            /\ events' = <<AckError("Time is up")>>
       ELSE IF i = 0
       THEN /\ players' = players
            /\ events' = <<AckError("Player not found")>>
       ELSE IF isStunned(players[i], qIndex)
       THEN /\ players' = players
            /\ events' = <<AckError("You are stunned this question")>>
       ELSE IF alreadyAnswered(players[i], qIndex)
       THEN /\ players' = players
            /\ events' = <<AckError("Already answered")>>
       ELSE IF q.missing
       THEN /\ players' = players
            /\ events' = <<AckError("No question")>>
       ELSE /\ players' = [players EXCEPT
                    ![i].answers = Append(@, [questionIndex |-> qIndex,
                                              answerIndex |-> answerIndex,
                                              gained |-> gained]),
                    ![i].score = @ + gained]
            /\ events' = <<EvUpdate, AckGained(gained)>>
    /\ UNCHANGED <<questions, now, state, currentQuestionIndex, questionEndsAt, timer,
                   delays, powerUsedCount>>

\* ------------------------------------------------------------- applyPower
\* target.stunnedUntil = qIndex + 1
stunUntil(qIndex) == qIndex + 1

\* minusScore without the floor at 0.
minusScoreUnclamped(score, delta) == score - delta

\* Math.max(0, target.score - delta)
minusScore(score, delta) == Max(0, score - delta)

\* swapScores that copies b's score to a and leaves b's as it was.
swapScoresOneWay(pl, a, b) == [pl EXCEPT ![a].score = pl[b].score]

\* Exchange of the scores at positions a and b (tmp = actor.score; ...).
swapScores(pl, a, b) == [pl EXCEPT ![a].score = pl[b].score, ![b].score = pl[a].score]

\* finalX4Applies without the test of the current question.
finalX4AppliesAlways(qIndex) == TRUE

\* FINAL_X4 acts only on the catalog's last question.
finalX4Applies(qIndex) == ~getQuestion(qIndex).missing /\ getQuestion(qIndex).isLast

\* 1000 + Math.floor(Math.random()*6000), over the sampled draws.
randomDelta == DeltaSamples

\* applyPower(room, type, actor, target): the players it can leave (one per
\* value Math.random can give); a and t are the positions of actor and target.
applyPower(pl, qIndex, type, a, t) ==
    CASE type = "PLUS"      -> {[pl EXCEPT ![a].score = @ + delta] : delta \in randomDelta}
      [] type = "MINUS"     -> {[pl EXCEPT ![t].score = minusScore(@, delta)] : delta \in randomDelta}
      [] type = "SWAP_LOW"  -> {swapScores(pl, a, sortByScore(pl, 1)[1])}
      [] type = "SWAP_HIGH" -> {swapScores(pl, a, sortByScore(pl, -1)[1])}
      [] type = "X2_SCORE"  -> {[pl EXCEPT ![a].score = @ * 2]}
      [] type = "STUN"      -> {[pl EXCEPT ![t].stunnedUntil = stunUntil(qIndex)]}
      [] type = "FINAL_X4"  -> IF finalX4Applies(qIndex)
                               THEN {[pl EXCEPT ![a].score = @ * lastMultiplier]}
                               ELSE {pl}
      [] OTHER              -> {pl}

\* powerAvailable without the test of power.used.
powerAvailableIgnoringUsed(p, powerIndex) ==
    powerIndex >= 0 /\ powerIndex < Len(p.powers)

\* !power || power.used, negated: the slot exists and is unused.
powerAvailable(p, powerIndex) ==
    /\ powerIndex >= 0
    /\ powerIndex < Len(p.powers)
    /\ ~p.powers[powerIndex + 1].used

\* socket.on('player:usePower')
UsePower(playerId, targetPlayerId, powerIndex) ==
    LET a == FindPlayer(players, playerId)
        found == FindPlayer(players, targetPlayerId)
        t == IF found # 0 THEN found ELSE a
    IN
    /\ IF a = 0
       THEN /\ players' = players
            /\ powerUsedCount' = powerUsedCount
            /\ events' = <<AckError("Actor not found")>>
       ELSE IF ~powerAvailable(players[a], powerIndex)
       THEN /\ players' = players
            /\ powerUsedCount' = powerUsedCount
            /\ events' = <<AckError("Power not available")>>
       ELSE LET type == players[a].powers[powerIndex + 1].type
            IN /\ \E applied \in applyPower(players, currentQuestionIndex, type, a, t) :
                    players' = [applied EXCEPT ![a].powers[powerIndex + 1].used = TRUE]
               /\ powerUsedCount' = [powerUsedCount EXCEPT ![a][powerIndex + 1] = @ + 1]
               /\ events' = <<EvPowerUsed(type, players[a].playerId, players[t].playerId,
                                         players'),
                              EvUpdate, AckOk>>
    /\ UNCHANGED <<questions, now, state, currentQuestionIndex, questionEndsAt, timer, delays>>

\* ------------------------------------------------------------------ timers
\* Callbacks run no earlier than their due time and in the order of their due times.
MayFire(due) ==
    /\ due <= now
    /\ timer # NULL => due <= timer
    /\ \A d \in delays : due <= d

\* ans && ans.answerIndex === q.bestIndex for the answer of questionIndex qIndex
answeredBest(p, qIndex, q) ==
    /\ alreadyAnswered(p, qIndex)
    /\ LET k == CHOOSE k \in 1..Len(p.answers) :
                    /\ p.answers[k].questionIndex = qIndex
                    /\ \A j \in 1..(k - 1) : p.answers[j].questionIndex # qIndex
       IN p.answers[k].answerIndex = q.bestIndex

\* finalizeQuestion(room), the callback startQuestion schedules.
FinalizeQuestion ==
    LET qIndex == currentQuestionIndex
        q == getQuestion(qIndex)
    IN
    /\ timer # NULL
    /\ MayFire(timer)
    /\ timer' = NULL
    /\ IF q.missing
       THEN /\ events' = << >>
            /\ UNCHANGED <<state, players, delays, powerUsedCount>>
       ELSE /\ \E draw \in [{i \in 1..Len(players) : answeredBest(players[i], qIndex, q)}
                            -> randomPower(qIndex)] :
                 players' = [i \in 1..Len(players) |->
                    IF i \in DOMAIN draw
                    THEN [players[i] EXCEPT
                            !.powers = Append(@, [type |-> draw[i], used |-> FALSE])]
                    ELSE players[i]]
            /\ powerUsedCount' = [i \in 1..Len(players) |->
                    IF answeredBest(players[i], qIndex, q)
                    THEN Append(powerUsedCount[i], 0)
                    ELSE powerUsedCount[i]]
            /\ state' = "results"
            /\ events' = <<EvResults(qIndex, q, players')>>
            /\ delays' = delays \cup {now + delayMs}
    /\ UNCHANGED <<questions, now, currentQuestionIndex, questionEndsAt>>

\* The inter-round callback finalizeQuestion schedules.
NextRound(due) ==
    /\ due \in delays
    /\ MayFire(due)
    /\ delays' = delays \ {due}
    /\ currentQuestionIndex' = currentQuestionIndex + 1
    /\ IF currentQuestionIndex' >= Len(questions)
       THEN endGame(players, << >>)
       ELSE startQuestion(currentQuestionIndex', players, <<EvUpdate>>)
    /\ UNCHANGED <<questions, now, players, powerUsedCount>>

\* Instants at which the room's behaviour can change.
Instants ==
    (IF questionEndsAt = NULL THEN {} ELSE {questionEndsAt, questionEndsAt + 1})
    \cup (IF timer = NULL THEN {} ELSE {timer})
    \cup delays

\* Time passes.
Tick(t) ==
    /\ t \in Instants
    /\ t > now
    /\ t <= MaxTime
    /\ now' = t
    /\ events' = << >>
    /\ UNCHANGED <<questions, state, currentQuestionIndex, questionEndsAt, players, timer,
                   delays, powerUsedCount>>

Next ==
    \/ \E r \in JoinRequests : Join(r.playerId, r.socketId, r.avatarId)
    \/ StartGame
    \/ \E p \in PlayerIds, a \in AnswerIndexes : SubmitAnswer(p, a)
    \/ \E p \in PlayerIds, t \in PlayerIds \cup {"nobody"}, k \in PowerIndexes :
          UsePower(p, t, k)
    \/ FinalizeQuestion
    \/ \E d \in delays : NextRound(d)
    \/ \E t \in Instants : Tick(t)

Spec == Init /\ [][Next]_vars

\* ================================================================== claims
\* Position of playerId in the room, and the events of one type.
Pos(playerId) == FindPlayer(players, playerId)
EventsOfType(evs, type) == {k \in 1..Len(evs) : evs[k].type = type}
Rejected(msg) == events = <<AckError(msg)>>

\* C1 (as claimed): every submitAnswer of a player of the room processed at a
\* time at or after the question deadline is rejected with the time-expired
\* error and leaves the players (answers and scores) unchanged.
C1_RejectedAtOrAfterDeadline ==
    [][\A p \in PlayerIds, a \in AnswerIndexes :
        (questionEndsAt # NULL /\ now >= questionEndsAt /\ Pos(p) # 0
            /\ SubmitAnswer(p, a))
            => (players' = players /\ events' = <<AckError("Time is up")>>)]_vars

\* C2: no player ever holds two Answers with the same questionIndex, and a
\* submitAnswer by a player who already answered the current question leaves
\* the players (answers and scores) unchanged and is not acknowledged as ok.
AnswersUnique(pl) ==
    \A i \in 1..Len(pl) : \A j, k \in 1..Len(pl[i].answers) :
        pl[i].answers[j].questionIndex = pl[i].answers[k].questionIndex => j = k

C2_OneAnswerPerQuestion ==
    [][/\ AnswersUnique(players')
       /\ \A p \in PlayerIds, a \in AnswerIndexes :
            (Pos(p) # 0 /\ alreadyAnswered(players[Pos(p)], currentQuestionIndex)
                /\ SubmitAnswer(p, a))
            => (players' = players /\ EventsOfType(events', "room:update") = {}
                /\ events'[1].error # "")]_vars

\* C2 witness: a second submission in time was turned down as a duplicate.
C2_Witness ==
    /\ Rejected("Already answered")
    /\ \E i \in 1..Len(players) : players[i].score > 0

\* C3 (as claimed): a player whose stunnedUntil equals the current question
\* index (STUN was activated on them during the previous index) has an
\* in-time submitAnswer on this question rejected as stunned.
C3_StunBlocksFollowingQuestion ==
    [][\A p \in PlayerIds, a \in AnswerIndexes :
        (/\ ~timeIsUp(now, questionEndsAt)
         /\ Pos(p) # 0
         /\ players[Pos(p)].stunnedUntil = currentQuestionIndex
         /\ SubmitAnswer(p, a))
        => (players' = players
            /\ events' = <<AckError("You are stunned this question")>>)]_vars

\* C4: a submitAnswer by a player whose stunnedUntil is greater than the
\* current question index leaves the players unchanged and is not accepted,
\* and no player's stunnedUntil ever exceeds the current index by more than
\* one, so that a stun blocks the current question only and the player may
\* submit as soon as the index has advanced by one.
StunWindowOneQuestion(pl, qIndex) ==
    \A i \in 1..Len(pl) : pl[i].stunnedUntil <= qIndex + 1

C4_StunnedCannotSubmit ==
    [][/\ StunWindowOneQuestion(players', currentQuestionIndex')
       /\ \A d \in delays :
            NextRound(d) =>
                \A i \in 1..Len(players') :
                    players'[i].stunnedUntil <= currentQuestionIndex'
       /\ \A p \in PlayerIds, a \in AnswerIndexes :
            (Pos(p) # 0 /\ players[Pos(p)].stunnedUntil > currentQuestionIndex
                /\ SubmitAnswer(p, a))
            => (players' = players /\ events'[1].error # "")]_vars

\* C4 witness: an in-time submission was turned down because the player is stunned.
C4_Witness ==
    /\ Rejected("You are stunned this question")
    /\ \E i \in 1..Len(players) :
            players[i].stunnedUntil = currentQuestionIndex + 1

\* C5: a used power slot stays used until host:startGame clears the powers;
\* a player:usePower naming a used slot is answered with an error and changes
\* no player; a step that emits room:power:used emits exactly one, for a
\* request whose slot existed and was unused, and marks that slot used; a
\* power-not-available answer comes with no change of any player; and the
\* room:power:used events counted for a slot are 1 if it is used, else 0.
PowerUsedEmitted(evs) == Len(evs) > 0 /\ evs[1].type = "room:power:used"

SlotUsed(p, powerIndex) ==
    powerIndex >= 0 /\ powerIndex < Len(p.powers) /\ p.powers[powerIndex + 1].used

C5_PowerUsedOnce ==
    [][/\ \A i \in 1..Len(players) : \A k \in 1..Len(players[i].powers) :
            players[i].powers[k].used
            => \/ /\ k <= Len(players'[i].powers)
                  /\ players'[i].powers[k].used
               \/ StartGame
       /\ events' = <<AckError("Power not available")>> => players' = players
       /\ \A i \in 1..Len(players) : \A k \in PowerIndexes :
            SlotUsed(players[i], k)
            => \A t \in PlayerIds \cup {"nobody"} :
                    UsePower(players[i].playerId, t, k)
                    => /\ players' = players
                       /\ events' = <<AckError("Power not available")>>
       /\ PowerUsedEmitted(events')
          => \A p \in PlayerIds, t \in PlayerIds \cup {"nobody"}, k \in PowerIndexes :
                (Pos(p) # 0 /\ UsePower(p, t, k))
                => /\ k < Len(players[Pos(p)].powers)
                   /\ ~players[Pos(p)].powers[k + 1].used
                   /\ players'[Pos(p)].powers[k + 1].used
                   /\ Cardinality(EventsOfType(events', "room:power:used")) = 1
       /\ \A i \in 1..Len(players') : \A k \in 1..Len(players'[i].powers) :
            powerUsedCount'[i][k] = IF players'[i].powers[k].used THEN 1 ELSE 0]_vars

\* C5 witness: a slot was used (one event counted) and a further usePower on
\* a slot of that player was turned down.
C5_Witness ==
    /\ Rejected("Power not available")
    /\ \E i \in 1..Len(players) : \E k \in 1..Len(players[i].powers) :
            players[i].powers[k].used /\ powerUsedCount[i][k] = 1

\* C6: a player's power list grows only in a finalizeQuestion step, by exactly
\* one power, only if the player's recorded answer for the finalized index is
\* the question's best option; every such player gets one; the granted type
\* is FINAL_X4 only if the finalized question is the catalog's last; and a
\* player never holds more powers than best-option answers.
BestAnswers(p) ==
    {k \in 1..Len(p.answers) :
        /\ ~getQuestion(p.answers[k].questionIndex).missing
        /\ p.answers[k].answerIndex = getQuestion(p.answers[k].questionIndex).bestIndex}

C6_PowersGrantedAtFinalize ==
    [][/\ \A i \in 1..Len(players') :
            LET old == IF i <= Len(players) THEN players[i].powers ELSE << >>
                new == players'[i].powers
            IN /\ Len(new) <= Cardinality(BestAnswers(players'[i]))
               /\ Len(new) > Len(old)
                  => /\ Len(new) = Len(old) + 1
                     /\ answeredBest(players[i], currentQuestionIndex,
                                     getQuestion(currentQuestionIndex))
                     /\ new[Len(new)].type \in POWERS
                     /\ ~new[Len(new)].used
                     /\ new[Len(new)].type = "FINAL_X4"
                        => currentQuestionIndex = Len(questions) - 1
                     /\ FinalizeQuestion
       /\ (timer # NULL /\ timer' = NULL /\ state' = "results" /\ FinalizeQuestion)
          => \A i \in 1..Len(players) :
                Len(players'[i].powers) = Len(players[i].powers)
                    + (IF answeredBest(players[i], currentQuestionIndex,
                                       getQuestion(currentQuestionIndex))
                       THEN 1 ELSE 0)]_vars

\* C6 witness: the last question was finalized, one player answered its best
\* option and was granted FINAL_X4, the other did not and was granted nothing.
C6_Witness ==
    /\ state = "results"
    /\ Len(events) = 1 /\ events[1].type = "room:question:results"
    /\ Len(players) = 2
    /\ \E i, j \in 1..2 :
            /\ Len(players[i].powers) = 1 /\ players[i].powers[1].type = "FINAL_X4"
            /\ Len(players[j].answers) = 1 /\ players[j].powers = << >>

\* C7: every leaderboard in an emitted room:question:results or
\* room:game:ended lists each player of the room exactly once with the
\* player's score, has ranks 1..N in list order, scores non-increasing, and
\* equal scores in join order.
LeaderboardOk(lb, pl) ==
    /\ Len(lb) = Len(pl)
    /\ \A k \in 1..Len(lb) : lb[k].rank = k
    /\ \A i \in 1..Len(pl) :
            /\ Cardinality({k \in 1..Len(lb) : lb[k].playerId = pl[i].playerId}) = 1
            /\ \A k \in 1..Len(lb) :
                    lb[k].playerId = pl[i].playerId => lb[k].score = pl[i].score
    /\ \A k, m \in 1..Len(lb) :
            k < m => /\ lb[k].score >= lb[m].score
                     /\ lb[k].score = lb[m].score
                        => FindPlayer(pl, lb[k].playerId) < FindPlayer(pl, lb[m].playerId)

LeaderboardEvents ==
    EventsOfType(events, "room:question:results") \cup EventsOfType(events, "room:game:ended")

C7_LeaderboardRanks ==
    \A k \in LeaderboardEvents : LeaderboardOk(events[k].leaderboard, players)

\* C7 witness: a leaderboard was emitted in which two players tie on a
\* positive score.
C7_Witness ==
    \E k \in LeaderboardEvents :
        /\ Len(events[k].leaderboard) = 2
        /\ events[k].leaderboard[1].score = events[k].leaderboard[2].score
        /\ events[k].leaderboard[1].score > 0

\* C8: host:startGame, in whatever phase, leaves every player with score 0,
\* stunnedUntil -1, no answers and no powers and otherwise as before (same
\* players in the same order), sets currentQuestionIndex to 0 and, when the
\* catalog is not empty, leaves the room in phase question with question 0
\* announced.
C8_StartGameResets ==
    [][(currentQuestionIndex' = 0 /\ StartGame)
        => /\ Len(players') = Len(players)
           /\ \A i \in 1..Len(players) :
                /\ players'[i].score = 0
                /\ players'[i].stunnedUntil = -1
                /\ players'[i].answers = << >>
                /\ players'[i].powers = << >>
                /\ players'[i].playerId = players[i].playerId
                /\ players'[i].socketId = players[i].socketId
                /\ players'[i].avatarId = players[i].avatarId
           /\ Len(questions) > 0
              => /\ state' = "question"
                 /\ events'[1].type = "room:question:start"
                 /\ events'[1].questionIndex = 0]_vars

\* C8 witness: the game was restarted from phase results (the inter-round
\* callback is still pending) by a room of two players.
C8_Witness ==
    /\ Len(players) = 2
    /\ state = "question" /\ currentQuestionIndex = 0
    /\ now > 0 /\ questionEndsAt = now + durationMs
    /\ delays # {}
    /\ Len(events) = 2 /\ events[1].type = "room:question:start"

\* C9: in phase ended no callback is pending, and a step taken in phase
\* ended that is not host:startGame leaves the phase ended and
\* currentQuestionIndex unchanged.
C9_EndedTerminal ==
    [][/\ state' = "ended" => (timer' = NULL /\ delays' = {})
       /\ state = "ended"
          => \/ (state' = "ended" /\ currentQuestionIndex' = currentQuestionIndex)
             \/ StartGame]_vars

\* C9 witness: a handler ran in phase ended of a game with questions.
C9_Witness ==
    /\ state = "ended"
    /\ Len(questions) > 0
    /\ Len(events) > 0 /\ events[Len(events)].type = "ack"

\* C10: room:join with a playerId not in the room and an avatarId a player of
\* the room holds is answered with the avatar-taken error and changes no
\* player; and no two players of the room ever hold the same avatarId.
AvatarsUnique(pl) ==
    \A i, j \in 1..Len(pl) : pl[i].avatarId = pl[j].avatarId => i = j

C10_AvatarUnique ==
    [][/\ AvatarsUnique(players')
       /\ \A r \in JoinRequests :
            (/\ Pos(r.playerId) = 0
             /\ \E i \in 1..Len(players) : players[i].avatarId = r.avatarId
             /\ Join(r.playerId, r.socketId, r.avatarId))
            => (players' = players
                /\ events' = <<AckError("Avatar already taken")>>)]_vars

\* C10 witness: a join was turned down because the avatar is held.
C10_Witness ==
    /\ Rejected("Avatar already taken")
    /\ Len(players) = 1

\* C11: room:join with a playerId the room already has, in whatever phase,
\* changes only that player's socketId: the players are the same in number
\* and order, every other player is as before, and the player's score,
\* stunnedUntil, answers and powers (and playerId, avatarId) are unchanged;
\* the join is acknowledged as ok.
C11_RejoinRebindsOnly ==
    [][\A r \in JoinRequests :
        (Pos(r.playerId) # 0 /\ Join(r.playerId, r.socketId, r.avatarId))
        => /\ Len(players') = Len(players)
           /\ \A i \in 1..Len(players) :
                /\ players'[i].playerId = players[i].playerId
                /\ players'[i].avatarId = players[i].avatarId
                /\ players'[i].score = players[i].score
                /\ players'[i].stunnedUntil = players[i].stunnedUntil
                /\ players'[i].answers = players[i].answers
                /\ players'[i].powers = players[i].powers
                /\ players'[i].socketId =
                        IF i = Pos(r.playerId) THEN r.socketId ELSE players[i].socketId
           /\ events' = <<EvUpdate, AckOk>>]_vars

\* C11 witness: p1, holding a score, an answer and a power, has re-joined on
\* its second connection after the first question was finalized.
C11_Witness ==
    /\ state = "results"
    /\ events = <<EvUpdate, AckOk>>
    /\ Pos("p1") # 0
    /\ players[Pos("p1")].socketId = "s2"
    /\ players[Pos("p1")].score > 0
    /\ Len(players[Pos("p1")].answers) = 1
    /\ Len(players[Pos("p1")].powers) = 1

\* C12: an accepted player:submitAnswer gains the catalog's score for the
\* chosen option (0 when the option has none), times 4 exactly when the
\* current question is the catalog's last; that gain is acknowledged, recorded
\* in the appended answer and added once to the player's score, and nothing
\* else of any player changes.  In the catalog <<Q1, Q2>> a player who
\* answered option 1 of question 0 and option 0 of question 1 gained 500 and
\* 800, and holds 1300 as long as no power was activated.
ConfiguredGain(qIndex, answerIndex) ==
    LET scores == questions[qIndex + 1].optionScores
        base == IF answerIndex + 1 \in DOMAIN scores THEN scores[answerIndex + 1] ELSE 0
    IN IF qIndex = Len(questions) - 1 THEN 4 * base ELSE base

AnswerAccepted(evs) == Len(evs) = 2 /\ "gained" \in DOMAIN evs[2]

NoPowerUsed(pl) ==
    \A i \in 1..Len(pl) : \A k \in 1..Len(pl[i].powers) : ~pl[i].powers[k].used

C12_GainIsOptionScore ==
    [][/\ AnswerAccepted(events')
          => \A p \in PlayerIds, a \in AnswerIndexes :
                (Pos(p) # 0 /\ SubmitAnswer(p, a))
                => LET i == Pos(p)
                       g == ConfiguredGain(currentQuestionIndex, a)
                   IN /\ events'[2].gained = g
                      /\ players'[i].score = players[i].score + g
                      /\ players'[i].answers =
                            Append(players[i].answers,
                                   [questionIndex |-> currentQuestionIndex,
                                    answerIndex |-> a, gained |-> g])
                      /\ players' = [players EXCEPT ![i].score = players'[i].score,
                                                    ![i].answers = players'[i].answers]
       /\ questions = <<Q1, Q2>>
          => \A i \in 1..Len(players') :
                LET ans == players'[i].answers IN
                (/\ Len(ans) = 2
                 /\ ans[1].questionIndex = 0 /\ ans[1].answerIndex = 1
                 /\ ans[2].questionIndex = 1 /\ ans[2].answerIndex = 0)
                => /\ ans[1].gained = 500
                   /\ ans[2].gained = 800
                   /\ NoPowerUsed(players') => players'[i].score = 1300]_vars

\* C12 witness: the two-question scenario, option 1 of the first question and
\* option 0 of the last, just acknowledged with 800 for a total of 1300.
C12_Witness ==
    /\ questions = <<Q1, Q2>>
    /\ currentQuestionIndex = 1
    /\ events = <<EvUpdate, AckGained(800)>>
    /\ \E i \in 1..Len(players) :
            /\ players[i].score = 1300
            /\ Len(players[i].answers) = 2
            /\ players[i].answers[1].gained = 500

\* C13: a MINUS activation leaves its target with the greater of 0 and the
\* score less the rolled delta (500 less 3000 gives 0) and changes no other
\* score; and no player's score is ever negative.
ScoresNonNegative(pl) == \A i \in 1..Len(pl) : pl[i].score >= 0

PowerUsedOfType(evs, type) == PowerUsedEmitted(evs) /\ evs[1].powerType = type

C13_MinusFloorsAtZero ==
    [][/\ ScoresNonNegative(players')
       /\ PowerUsedOfType(events', "MINUS")
          => LET t == FindPlayer(players, events'[1].target) IN
             /\ t # 0
             /\ \E delta \in DeltaSamples :
                    players'[t].score =
                        IF players[t].score > delta THEN players[t].score - delta ELSE 0
             /\ \A i \in 1..Len(players) : i # t => players'[i].score = players[i].score
             /\ (players[t].score = 500 /\ players'[t].score # 500) => players'[t].score = 0]_vars

\* C13 witness: MINUS with a delta of 3000 was activated on a player holding
\* 500, who is left with 0.
C13_Witness ==
    /\ PowerUsedOfType(events, "MINUS")
    /\ \E i, j \in 1..Len(players) :
            /\ i # j
            /\ players[i].playerId = events[1].target
            /\ players[i].score = 0
            /\ Len(players[i].answers) = 1 /\ players[i].answers[1].gained = 500
            /\ players[j].playerId = events[1].actor
            /\ players[j].score = 500

\* C14: a SWAP_HIGH activation exchanges the actor's score with the score of
\* the highest-scoring player (the first such in join order), leaves every
\* other score unchanged, preserves the multiset of scores, and the
\* room:power:used event lists every player with the score after the swap;
\* with A holding 100 and B holding 900, A's activation leaves A with 900
\* and B with 100.
FirstHighest(pl) ==
    CHOOSE h \in 1..Len(pl) :
        /\ \A i \in 1..Len(pl) : pl[i].score <= pl[h].score
        /\ \A i \in 1..(h - 1) : pl[i].score < pl[h].score

SameScoreMultiset(pl1, pl2) ==
    /\ Len(pl1) = Len(pl2)
    /\ \A i \in 1..Len(pl1) :
            Cardinality({j \in 1..Len(pl1) : pl1[j].score = pl1[i].score})
                = Cardinality({j \in 1..Len(pl2) : pl2[j].score = pl1[i].score})

ScenarioAB ==
    <<[NewPlayer("A", "sA", "A") EXCEPT !.score = 100],
      [NewPlayer("B", "sB", "B") EXCEPT !.score = 900]>>

C14_SwapHighExchanges ==
    [][/\ PowerUsedOfType(events', "SWAP_HIGH")
          => LET a == FindPlayer(players, events'[1].actor)
                 h == FirstHighest(players)
             IN /\ a # 0
                /\ players'[a].score = players[h].score
                /\ players'[h].score = players[a].score
                /\ \A i \in 1..Len(players) :
                        i \notin {a, h} => players'[i].score = players[i].score
                /\ SameScoreMultiset(players, players')
                /\ Len(events'[1].players) = Len(players')
                /\ \A i \in 1..Len(players') :
                        /\ events'[1].players[i].playerId = players'[i].playerId
                        /\ events'[1].players[i].score = players'[i].score
       /\ \A after \in applyPower(ScenarioAB, currentQuestionIndex, "SWAP_HIGH", 1, 1) :
            after[1].score = 900 /\ after[2].score = 100]_vars

\* C14 witness: the actor, whose only power is the SWAP_HIGH just activated
\* and who had gained 500, now holds the 1500 of the other player, who is
\* left with 500; the event lists both scores.
C14_Witness ==
    /\ PowerUsedOfType(events, "SWAP_HIGH")
    /\ \E i, j \in 1..Len(players) :
            /\ i # j
            /\ players[i].playerId = events[1].actor
            /\ Len(players[i].powers) = 1
            /\ Len(players[i].answers) = 1 /\ players[i].answers[1].gained = 500
            /\ players[i].score = 1500
            /\ players[j].score = 500
            /\ events[1].players[i].score = 1500
            /\ events[1].players[j].score = 500

\* C15: with an empty catalog host:startGame, whenever it is invoked, leaves
\* the room in phase ended with the room:game:ended leaderboard of its
\* players emitted first and no callback pending; and such a room is never in
\* phase question or results and never has a callback pending or a deadline.
C15_EmptyCatalogEnds ==
    [][questions = << >>
        => /\ state' \in {"lobby", "ended"}
           /\ timer' = NULL /\ delays' = {} /\ questionEndsAt' = NULL
           /\ (currentQuestionIndex' = 0 /\ StartGame)
              => /\ state' = "ended"
                 /\ Len(events') > 0
                 /\ events'[1] = [type |-> "room:game:ended",
                                  leaderboard |-> leaderboard(players')]
                 /\ EventsOfType(events', "room:question:start") = {}]_vars

\* C15 witness: host:startGame has just ended the game of a room of two
\* players whose catalog is empty.
C15_Witness ==
    /\ questions = << >>
    /\ state = "ended"
    /\ Len(players) = 2
    /\ Len(events) = 2 /\ events[1].type = "room:game:ended"
    /\ Len(events[1].leaderboard) = 2

\* C16 (as claimed): ending a game leaves no callback pending, and a room in
\* phase question stays in phase question at the same question index until
\* the deadline callback of that question (finalizeQuestion) or a further
\* host:startGame: no callback scheduled in an earlier round advances
\* currentQuestionIndex, starts another question or ends the game.
C16_NoStaleCallback ==
    [][/\ state' = "ended" => (timer' = NULL /\ delays' = {})
       /\ state = "question"
          => \/ (state' = "question" /\ currentQuestionIndex' = currentQuestionIndex)
             \/ FinalizeQuestion
             \/ StartGame]_vars

\* C17 (as claimed): at most one callback of the room is pending, counting
\* the deadline callback and the inter-round callbacks.
PendingCallbacks == Cardinality(delays) + (IF timer = NULL THEN 0 ELSE 1)

C17_OnePendingCallback == PendingCallbacks <= 1

\* C18 (as claimed): questionEndsAt is null whenever the phase is not question.
C18_DeadlineNullOutsideQuestion == state # "question" => questionEndsAt = NULL

\* C19: a FINAL_X4 activation multiplies the actor's score by 4 when
\* currentQuestionIndex is the catalog's last index at that moment, and
\* changes the actor's score at no other index (the index past the catalog of
\* an ended game included); it changes no other player's score, and in both
\* cases the activated slot is marked used.
UsedSlots(p) == {k \in 1..Len(p.powers) : p.powers[k].used}

C19_FinalX4OnlyOnLast ==
    [][PowerUsedOfType(events', "FINAL_X4")
        => LET a == FindPlayer(players, events'[1].actor) IN
           /\ a # 0
           /\ players'[a].score =
                IF currentQuestionIndex = Len(questions) - 1
                THEN 4 * players[a].score
                ELSE players[a].score
           /\ \A i \in 1..Len(players) : i # a => players'[i].score = players[i].score
           /\ \E k \in UsedSlots(players'[a]) \ UsedSlots(players[a]) :
                /\ players[a].powers[k].type = "FINAL_X4"
                /\ UsedSlots(players'[a]) = UsedSlots(players[a]) \cup {k}]_vars

\* C19 witness: the game of a one-question catalog has ended; one player
\* activated FINAL_X4 during the results of the last question (2000 became
\* 8000), the other has just activated it after the end and keeps 2000.
C19_Witness ==
    /\ state = "ended"
    /\ currentQuestionIndex = Len(questions)
    /\ PowerUsedOfType(events, "FINAL_X4")
    /\ \E i, j \in 1..Len(players) :
            /\ players[i].playerId = events[1].actor
            /\ players[i].score = 2000
            /\ players[i].powers = <<[type |-> "FINAL_X4", used |-> TRUE]>>
            /\ players[j].score = 8000
            /\ players[j].powers = <<[type |-> "FINAL_X4", used |-> TRUE]>>

\* C20 (as claimed): a step taken in phase ended that is not host:startGame
\* changes no player's score; in particular no player:submitAnswer and no
\* player:usePower processed in phase ended does.
C20_ScoresFrozenWhenEnded ==
    [][state = "ended"
        => \/ \A i \in 1..Len(players) :
                i <= Len(players') /\ players'[i].score = players[i].score
           \/ StartGame]_vars

\* ------------------------------------------------ one game, run to its end
\* A room whose host starts the game once: the catalog is not empty,
\* host:startGame is invoked in phase lobby only, Date.now() advances as far
\* as the last callback of a two-question game, and Node's event loop runs
\* every callback that stays due.  One avatar is requested by both players,
\* so that the room holds one of them (who may re-join on a second
\* connection) and turns the other down.
LiveMaxTime == 75000

LiveJoinRequests ==
    {[playerId |-> "p1", socketId |-> "s1", avatarId |-> "A"],
     [playerId |-> "p1", socketId |-> "s2", avatarId |-> "A"],
     [playerId |-> "p2", socketId |-> "s3", avatarId |-> "A"]}

LiveInit == Init /\ questions # << >>

FirstStartGame == state = "lobby" /\ StartGame

LiveTick(t) ==
    /\ t \in Instants
    /\ t > now
    /\ t <= LiveMaxTime
    /\ now' = t
    /\ events' = << >>
    /\ UNCHANGED <<questions, state, currentQuestionIndex, questionEndsAt, players, timer,
                   delays, powerUsedCount>>

TimePasses == \E t \in Instants : LiveTick(t)

InterRound == \E d \in delays : NextRound(d)

LiveNext ==
    \/ \E r \in LiveJoinRequests : Join(r.playerId, r.socketId, r.avatarId)
    \/ FirstStartGame
    \/ \E p \in PlayerIds, a \in AnswerIndexes : SubmitAnswer(p, a)
    \/ \E p \in PlayerIds, t \in PlayerIds \cup {"nobody"}, k \in PowerIndexes :
          UsePower(p, t, k)
    \/ FinalizeQuestion
    \/ InterRound
    \/ TimePasses

LiveSpec ==
    /\ LiveInit
    /\ [][LiveNext]_vars
    /\ WF_vars(TimePasses)
    /\ WF_vars(FinalizeQuestion)
    /\ WF_vars(InterRound)

\* C21: in a room with a non-empty catalog whose game is started once, with
\* callbacks that run when due, the phase and the question index change only
\* from lobby to question 0, from question k to results k, and from results
\* k to question k + 1 or, after the last index, to ended; every question
\* started is followed by its results, every results by the next question or
\* by ended, and a started game reaches phase ended, whatever room:join,
\* player:submitAnswer and player:usePower requests are processed meanwhile.
PhaseOrder ==
    (state' # state \/ currentQuestionIndex' # currentQuestionIndex)
    => \/ /\ state = "lobby"
          /\ state' = "question" /\ currentQuestionIndex' = 0
       \/ /\ state = "question"
          /\ state' = "results" /\ currentQuestionIndex' = currentQuestionIndex
       \/ /\ state = "results"
          /\ currentQuestionIndex' = currentQuestionIndex + 1
          /\ state' = IF currentQuestionIndex' < Len(questions) THEN "question" ELSE "ended"

InPhase(phase, k) == state = phase /\ currentQuestionIndex = k

AfterResults(k) ==
    IF k + 1 < Len(questions) THEN InPhase("question", k + 1) ELSE InPhase("ended", k + 1)

=============================================================================
